---- MODULE Spec2Model ----
(***************************************************************************)
(* Model of the SensorThings synchronisation run of hydraulic_engine:      *)
(* SwmmOutHandler.export_to_frost (swmm/out_handler.py), the reconciler    *)
(* and the two passes of utils/tools_sensorthings.py, and the batched,     *)
(* concurrent dispatch HeFrostClient.batch_request with its Keycloak token *)
(* (utils/tools_api.py).                                                   *)
(***************************************************************************)
EXTENDS Integers, Sequences, FiniteSets, TLC

(***************************************************************************)
(* Bounds of the model.                                                    *)
(***************************************************************************)
\* entities of the INP file (length of the desired list)
MaxThings == 2
\* datastreams per desired entity
MaxDs == 1
\* batch_size ranges over 1..MaxBatchSize
MaxBatchSize == 2
\* max_workers ranges over 1..MaxWorkers
MaxWorkers == 2
\* batches planned by one batch_request call
MaxBatches == 2
\* pages of one collection that get_entities walks
MaxPages == 3
\* items of one page
MaxItems == 2
\* threads that call get_token
MaxCallers == 2
\* times the clock advances
MaxTicks == 3

\* names of the entities of the INP file, in file order
NamePool == <<"N1", "N2", "N3", "N4">>
\* a Thing of the server that no INP file of the model holds
StaleName == "Z9"
\* the only desired name the server may already hold
KnownName == "N1"

\* tools_sensorthings.SWMM_NODE_PROPERTIES, in its order
SWMM_NODE_PROPERTIES == <<"head", "depth", "volume", "lateral_inflow", "total_inflow", "flooding">>

\* @iot.id the server gave the Thing, and its Location, of a name
RemoteId(name) == IF name = "N1" THEN 5 ELSE IF name = StaleName THEN 9 ELSE 7
LocationId(name) == RemoteId(name) + 100
\* geometry computed from the INP coordinates of a name
NewGeometry(name) == [type |-> "Point", coordinates |-> name]
\* another geometry, as the server may hold from an earlier run
OldGeometry(name) == [type |-> "Point", coordinates |-> "moved"]

(***************************************************************************)
(* Data: desired Things (the thing_data dicts of _prepare_nodes_things_data)*)
(* and the server's Things (what GET Things?$expand=Locations returns).    *)
(***************************************************************************)
\* a number as an id: str(request_id_counter[0]), {"@iot.id": thing_id}
NumId(n) == [num |-> n, ref |-> ""]
\* a symbolic id: f"thing_{thing_name}", referred to as f"${thing_ref}"
RefId(name) == [num |-> 0, ref |-> name]

\* a datastream dict; its Thing key holds {"@iot.id": ...}, NumId(0) stands
\* for the key being absent
Datastream(name, prop) == [name |-> <<prop, name>>, Thing |-> NumId(0)]

ThingData(name, nds) ==
    [name |-> name,
     location |-> NewGeometry(name),
     Datastreams |-> [i \in 1..nds |-> Datastream(name, SWMM_NODE_PROPERTIES[i])],
     properties |-> [node_type |-> "JUNCTION"]]

\* the desired lists: the first n names of the pool, each with the nds
\* datastreams the result file has series for
DesiredLists ==
    {[i \in 1..n |-> ThingData(NamePool[i], nds)] : n \in 0..MaxThings, nds \in 0..MaxDs}

\* a Thing as the server returns it
RemoteThing(name, geom) ==
    [name |-> name,
     id |-> RemoteId(name),
     properties |-> [state |-> "obsolete", owner |-> name],
     Locations |-> <<[id |-> LocationId(name), location |-> geom]>>]

\* what the server may hold: the known name with its geometry unchanged or
\* moved, and a stale Thing, in the order the server lists them
RemoteLists ==
    LET known == {RemoteThing(KnownName, g) : g \in {NewGeometry(KnownName), OldGeometry(KnownName)}}
        stale == RemoteThing(StaleName, OldGeometry(StaleName))
    IN {<<>>, <<stale>>} \cup {<<k>> : k \in known} \cup {<<k, stale>> : k \in known}

\* get_all_things_with_locations: the cache built from a fetched list, in
\* insertion order (the fetched names are distinct)
BuildThingsCache(things) ==
    [i \in 1..Len(things) |->
        [name |-> things[i].name, id |-> things[i].id,
         properties |-> things[i].properties, Locations |-> things[i].Locations]]

CacheNames(cache) == {cache[i].name : i \in 1..Len(cache)}
\* a lookup under a key the cache does not use (the @iot.id): always a miss
InCacheNever(cache, name) == FALSE

\* thing_name in things_cache
InCache(cache, name) == name \in CacheNames(cache)
\* things_cache[thing_name]
Cached(cache, name) == cache[CHOOSE i \in 1..Len(cache) : cache[i].name = name]

(***************************************************************************)
(* The reconciler.                                                         *)
(***************************************************************************)
\* a Location dict without content
EmptyLocation == [id |-> 0, location |-> [type |-> "", coordinates |-> ""]]

\* a comparison that reports every geometry as changed
geometry_changed_always(old_location, new_location) == TRUE

geometry_changed(old_location, new_location) ==
    IF old_location = EmptyLocation THEN TRUE
    ELSE old_location.location # new_location

\* {"state": state}: the properties replaced, not merged
MergeStateReplace(properties, state) == [k \in {"state"} |-> state]

\* {**properties, "state": state}
MergeState(properties, state) ==
    [k \in DOMAIN properties \cup {"state"} |->
        IF k = "state" THEN state ELSE properties[k]]

\* f"Things({thing_id})"; key 0 is the collection itself
Url(entity, key) == [entity |-> entity, key |-> key]

\* a prepare_thing_requests whose creation branch posts the Thing without its
\* Datastreams and then each Datastream with a reference to f"${thing_ref}"
prepare_thing_requests_by_reference(thing_data, things_cache, request_id_counter) ==
    LET thing_name == thing_data.name
    IN IF InCache(things_cache, thing_name)
       THEN LET thing_id == Cached(things_cache, thing_name).id
            IN [requests |->
                   <<[id |-> NumId(request_id_counter + 1), method |-> "patch",
                      url |-> Url("Things", thing_id),
                      body |-> [properties |->
                                   MergeState(Cached(things_cache, thing_name).properties,
                                              "operative")]]>>,
                counter |-> request_id_counter + 1]
       ELSE [requests |->
                <<[id |-> RefId(thing_name), method |-> "post",
                   url |-> Url("Things", 0),
                   body |-> [thing_data EXCEPT !.Datastreams = <<>>,
                                               !.properties = MergeState(@, "operative")]]>>
                \o [i \in 1..Len(thing_data.Datastreams) |->
                      [id |-> NumId(request_id_counter + i), method |-> "post",
                       url |-> Url("Datastreams", 0),
                       body |-> [thing_data.Datastreams[i] EXCEPT !.Thing = RefId(thing_name)]]],
             counter |-> request_id_counter + Len(thing_data.Datastreams)]

\* a prepare_thing_requests that posts the Datastreams of a cached Thing
\* without setting their Thing
prepare_thing_requests_unlinked(thing_data, things_cache, request_id_counter) ==
    LET thing_name == thing_data.name
        new_location == thing_data.location
    IN IF InCache(things_cache, thing_name)
       THEN LET cached == Cached(things_cache, thing_name)
                thing_id == cached.id
                patch_thing ==
                    <<[id |-> NumId(request_id_counter + 1), method |-> "patch",
                       url |-> Url("Things", thing_id),
                       body |-> [properties |-> MergeState(cached.properties, "operative")]]>>
                patch_location ==
                    IF cached.Locations # <<>>
                       /\ geometry_changed(cached.Locations[1], new_location)
                    THEN <<[id |-> NumId(request_id_counter + 2), method |-> "patch",
                            url |-> Url("Locations", cached.Locations[1].id),
                            body |-> [location |-> new_location]]>>
                    ELSE <<>>
                c == request_id_counter + 1 + Len(patch_location)
                post_datastreams ==
                    [i \in 1..Len(thing_data.Datastreams) |->
                        [id |-> NumId(c + i), method |-> "post",
                         url |-> Url("Datastreams", 0),
                         body |-> thing_data.Datastreams[i]]]
            IN [requests |-> patch_thing \o patch_location \o post_datastreams,
                counter |-> c + Len(post_datastreams)]
       ELSE [requests |->
                <<[id |-> RefId(thing_name), method |-> "post",
                   url |-> Url("Things", 0),
                   body |-> [thing_data EXCEPT !.properties = MergeState(@, "operative")]]>>,
             counter |-> request_id_counter]

\* prepare_thing_requests: the requests of one Thing and the counter after it
prepare_thing_requests(thing_data, things_cache, request_id_counter) ==
    LET thing_name == thing_data.name
        new_location == thing_data.location
    IN IF InCache(things_cache, thing_name)
       THEN LET cached == Cached(things_cache, thing_name)
                thing_id == cached.id
                patch_thing ==
                    <<[id |-> NumId(request_id_counter + 1), method |-> "patch",
                       url |-> Url("Things", thing_id),
                       body |-> [properties |-> MergeState(cached.properties, "operative")]]>>
                patch_location ==
                    IF cached.Locations # <<>>
                       /\ geometry_changed(cached.Locations[1], new_location)
                    THEN <<[id |-> NumId(request_id_counter + 2), method |-> "patch",
                            url |-> Url("Locations", cached.Locations[1].id),
                            body |-> [location |-> new_location]]>>
                    ELSE <<>>
                c == request_id_counter + 1 + Len(patch_location)
                post_datastreams ==
                    [i \in 1..Len(thing_data.Datastreams) |->
                        [id |-> NumId(c + i), method |-> "post",
                         url |-> Url("Datastreams", 0),
                         body |-> [thing_data.Datastreams[i] EXCEPT !.Thing = NumId(thing_id)]]]
            IN [requests |-> patch_thing \o patch_location \o post_datastreams,
                counter |-> c + Len(post_datastreams)]
       ELSE [requests |->
                <<[id |-> RefId(thing_name), method |-> "post",
                   url |-> Url("Things", 0),
                   body |-> [thing_data EXCEPT !.properties = MergeState(@, "operative")]]>>,
             counter |-> request_id_counter]

\* a prepare_thing_requests that sets the state in the cached dict itself
CacheAfterPrepareInPlace(thing_data, things_cache) ==
    [i \in 1..Len(things_cache) |->
        IF things_cache[i].name = thing_data.name
        THEN [things_cache[i] EXCEPT !.properties = MergeState(@, "operative")]
        ELSE things_cache[i]]

\* a prepare_thing_requests that stores the new geometry in the cached Location
CacheAfterPrepareMoved(thing_data, things_cache) ==
    [i \in 1..Len(things_cache) |->
        IF things_cache[i].name = thing_data.name /\ things_cache[i].Locations # <<>>
        THEN [things_cache[i] EXCEPT !.Locations[1].location = thing_data.location]
        ELSE things_cache[i]]

\* the things_cache dict after prepare_thing_requests(thing_data, things_cache,
\* ...): the function reads it (in, [], get) and builds new dicts for the
\* bodies ({**...}, ds.copy()); it assigns nothing into it
CacheAfterPrepare(thing_data, things_cache) == things_cache

RECURSIVE PrepareLoopFreshCounter(_, _, _, _)
\* a preparation loop that hands every call a counter of its own
PrepareLoopFreshCounter(things, cache, i, counter) ==
    IF i > Len(things) THEN <<>>
    ELSE <<prepare_thing_requests(things[i], cache, 0).requests>>
         \o PrepareLoopFreshCounter(things, CacheAfterPrepare(things[i], cache), i + 1, 0)

RECURSIVE PrepareLoop(_, _, _, _)
\* the preparation loop of process_things_batch over things_data[i..]; every
\* call is handed the same cache dict
PrepareLoop(things, cache, i, counter) ==
    IF i > Len(things) THEN <<>>
    ELSE LET r == prepare_thing_requests(things[i], cache, counter)
         IN <<r.requests>>
            \o PrepareLoop(things, CacheAfterPrepare(things[i], cache), i + 1, r.counter)

RECURSIVE CacheAfterLoop(_, _, _)
\* the cache dict after the preparation loop over things_data[i..]
CacheAfterLoop(things, cache, i) ==
    IF i > Len(things) THEN cache
    ELSE CacheAfterLoop(things, CacheAfterPrepare(things[i], cache), i + 1)

RECURSIVE Flatten(_)
Flatten(seqs) == IF seqs = <<>> THEN <<>> ELSE Head(seqs) \o Flatten(Tail(seqs))

\* the operation groups, one per desired Thing, in emission order
OperationGroups(things, cache) == PrepareLoop(things, cache, 1, 0)
\* all_requests of process_things_batch
AllRequests(things, cache) == Flatten(OperationGroups(things, cache))

\* an inp_feature_ids set that the preparation never filled
FeatureIdsEmpty(things) == {}

\* inp_feature_ids of export_to_frost
FeatureIds(things) == {things[i].name : i \in 1..Len(things)}

\* every cache entry taken as obsolete, active or not
ObsoleteThingsAll(cache, active) == cache

RECURSIVE ObsoleteThings(_, _)
\* obsolete_things of mark_obsolete_things: the cache entries, in cache
\* order, whose name is not active
ObsoleteThings(cache, active) ==
    IF cache = <<>> THEN <<>>
    ELSE (IF Head(cache).name \notin active THEN <<Head(cache)>> ELSE <<>>)
         \o ObsoleteThings(Tail(cache), active)

\* the things_cache dict after mark_obsolete_things: the function iterates
\* over its items and copies the properties into the bodies ({**properties})
CacheAfterMarkObsolete(cache, active) == cache

\* the batch requests mark_obsolete_things builds (ids count from 0)
ObsoleteRequests(cache, active) ==
    LET obsolete_things == ObsoleteThings(cache, active)
    IN [i \in 1..Len(obsolete_things) |->
          [id |-> NumId(i - 1), method |-> "patch",
           url |-> Url("Things", obsolete_things[i].id),
           body |-> [properties |-> MergeState(obsolete_things[i].properties, "obsolete")]]]

(***************************************************************************)
(* The batch planner of batch_request.                                     *)
(***************************************************************************)
Min(a, b) == IF a < b THEN a ELSE b

\* num_batches = (total_requests + batch_size - 1) // batch_size
NumBatches(total_requests, size) == (total_requests + size - 1) \div size

\* a split that stops before a last batch shorter than batch_size
SplitBatchesWholeOnly(requests, size) ==
    [b \in 1..(Len(requests) \div size) |->
        SubSeq(requests, (b - 1) * size + 1, b * size)]

\* batches: batch_requests[i:i + batch_size] for i in range(0, total, batch_size)
SplitBatches(requests, size) ==
    LET total == Len(requests)
        starts == {i \in 0..(total - 1) : i % size = 0}
    IN [b \in 1..Cardinality(starts) |->
          SubSeq(requests, (b - 1) * size + 1, Min(b * size, total))]

(***************************************************************************)
(* The server's answer to one $batch request.                              *)
(***************************************************************************)
\* 200 <= r.get('status', 0) < 300
IsSuccess(r) == 200 <= r.status /\ r.status < 300

\* the 'responses' lists the server may answer a batch with: one item per
\* request, all of them 2xx or one of them an error, or every request but
\* the last answered
ReplyChoices(batch) ==
    LET n == Len(batch)
        answered(m, bad) ==
            [i \in 1..m |-> [id |-> batch[i].id, status |-> IF i = bad THEN 400 ELSE 201]]
    IN {answered(n, bad) : bad \in 0..n} \cup {answered(n - 1, 0)}

(***************************************************************************)
(* State.                                                                  *)
(***************************************************************************)
VARIABLES
    \* inputs of export_to_frost
    things_data,        \* all_things = node_things + link_things
    batch_size,
    max_workers,
    auth,               \* HeFrostClient.auth is configured
    \* export_to_frost
    pc,                 \* position of the main thread
    things_cache,
    obs_props_cache,    \* "full": holds every property of the engine; "empty"
    fetch_failed,       \* a get_entities of this run returned None
    writes,             \* the endpoints this run has sent write requests to
    ptb_ret,            \* what process_things_batch returned
    mot_ret,            \* what mark_obsolete_things returned
    export_ret,         \* what export_to_frost returned
    \* KeycloakAuth: _token is set and time.time() < _token_expiry - 30
    token_fresh,
    \* the running batch_request call
    pass,               \* its caller: "main" or "obsolete"
    batch_requests,
    batches,
    bstate,             \* per batch: queued, token, inflight, ok, failed, unsent
    reply,              \* per batch: the 'responses' the server answered
    sent,               \* per batch: POSTs of it to $batch
    results_by_batch,   \* dict batch_num -> responses, in insertion order
    br_ret,             \* "pending", "list" (all_responses) or "None"
    all_responses,
    \* tools_db: the default connection
    db_connection,      \* config.session_vars['db_connection']: a DAO, 0 is None
    dao_open,           \* the DAOs whose connection is open
    db_calls,           \* the calls made so far, with what they returned
    \* HeFrostClient.get_entities
    pages,              \* the pages the server holds, linked by @iot.nextLink
    endpoint,           \* <<prefix, page>> to request next, <<>> is None
    entities,
    ge_ret,             \* "idle", "pending", "list" (entities) or "None"
    \* KeycloakAuth and the calls of get_token
    clock,              \* time.time(), in seconds
    ticks,              \* how often time has advanced
    kc_token,           \* KeycloakAuth._token
    kc_token_expiry,    \* KeycloakAuth._token_expiry
    gt_pc,              \* per caller: "idle", "return_cached", "requesting", "store_expiry"
    current_time,       \* per caller: the local of line 38
    expires_in,         \* per caller: the local of line 59
    gt_ret              \* per caller: what its last call returned

inputs == <<things_data, batch_size, max_workers, auth>>
runvars == <<things_cache, obs_props_cache, fetch_failed, ptb_ret, mot_ret, export_ret>>
callvars == <<pass, batch_requests, batches>>
poolvars == <<bstate, reply, sent>>
retvars == <<results_by_batch, br_ret, all_responses>>
dbvars == <<db_connection, dao_open, db_calls>>
\* the state of the components export_to_frost does not touch
pagevars == <<pages, endpoint, entities, ge_ret>>
tokvars == <<clock, ticks, kc_token, kc_token_expiry, gt_pc, current_time, expires_in, gt_ret>>
others == <<dbvars, pagevars, tokvars>>
vars == <<inputs, pc, runvars, writes, token_fresh, callvars, poolvars, retvars, others>>

\* config.session_vars as the module sets it up: no connection
DbInit ==
    /\ db_connection = 0
    /\ dao_open = {}
    /\ db_calls = <<>>

\* the run plans at most MaxBatches batches in its main pass
Admissible(things, cache, size) ==
    NumBatches(Len(AllRequests(things, cache)), size) <= MaxBatches

\* the buffer of the validity check, and expires_in when the reply has none
TokenBuffer == 30
DefaultExpiresIn == 300

\* the threads that call get_token
Callers == 1..MaxCallers
\* seconds that pass between two steps, when time passes
TickSteps == {15, 240}
\* expires_in of a reply; 0 stands for a reply without the key
RepliedExpiresIn == {0, 60}

\* _token = None
NoToken == [at |-> 0, expires_in |-> 0, by |-> 0]
\* the access_token of the reply to the request of caller t: it is named by
\* the call that asked for it
AccessToken(t, given) == [at |-> current_time[t], expires_in |-> given, by |-> t]
NoReturn == [how |-> "none", token |-> NoToken, at |-> 0]

\* a KeycloakAuth as the dataclass builds it, no call running
TokenIdle ==
    /\ clock = 0
    /\ ticks = 0
    /\ kc_token = NoToken
    /\ kc_token_expiry = 0
    /\ gt_pc = [t \in Callers |-> "idle"]
    /\ current_time = [t \in Callers |-> 0]
    /\ expires_in = [t \in Callers |-> 0]
    /\ gt_ret = [t \in Callers |-> NoReturn]

\* self._token and current_time < self._token_expiry - 30
StillValid(tok, now, expiry) == tok # NoToken /\ now < expiry - TokenBuffer

\* no get_entities call is being followed
PagesIdle ==
    /\ pages = <<>>
    /\ endpoint = <<>>
    /\ entities = <<>>
    /\ ge_ret = "idle"

Init ==
    /\ DbInit
    /\ PagesIdle
    /\ TokenIdle
    /\ things_data \in DesiredLists
    /\ batch_size \in 1..MaxBatchSize
    /\ max_workers \in 1..MaxWorkers
    /\ auth \in BOOLEAN
    /\ Admissible(things_data, <<>>, batch_size)
    /\ pc = "fetch_things"
    /\ things_cache = <<>>
    /\ obs_props_cache = "empty"
    /\ fetch_failed = FALSE
    /\ writes = {}
    /\ ptb_ret = "pending"
    /\ mot_ret = "pending"
    /\ export_ret = "pending"
    /\ token_fresh = auth
    /\ pass = "none"
    /\ batch_requests = <<>>
    /\ batches = <<>>
    /\ bstate = <<>>
    /\ reply = <<>>
    /\ sent = <<>>
    /\ results_by_batch = <<>>
    /\ br_ret = "pending"
    /\ all_responses = <<>>

(***************************************************************************)
(* KeycloakAuth.get_token, as the main thread runs it inside one request.  *)
(***************************************************************************)
\* token_fresh after a request of the main thread that succeeded
TokenAfterRequest == auth

\* time passes: the cached token enters the 30 s buffer before its expiry
TokenExpires ==
    /\ auth /\ token_fresh
    /\ pc \notin {"done", "raised"}
    /\ token_fresh' = FALSE
    /\ UNCHANGED <<others, inputs, pc, runvars, writes, callvars, poolvars, retvars>>

(***************************************************************************)
(* export_to_frost up to the main pass.                                    *)
(***************************************************************************)
\* get_all_things_with_locations: get_entities gives the server's Things, or
\* None, which leaves the cache empty
FetchThings ==
    /\ pc = "fetch_things"
    /\ \/ \E things \in RemoteLists :
             /\ Admissible(things_data, BuildThingsCache(things), batch_size)
             /\ things_cache' = BuildThingsCache(things)
             /\ fetch_failed' = fetch_failed
             /\ token_fresh' = TokenAfterRequest
       \/ /\ things_cache' = <<>>
          /\ fetch_failed' = TRUE
          /\ token_fresh' \in {token_fresh, TokenAfterRequest}
    /\ pc' = "fetch_props"
    /\ UNCHANGED <<others, inputs, obs_props_cache, ptb_ret, mot_ret, export_ret, writes,
                   callvars, poolvars, retvars>>

\* get_all_observed_properties: get_entities gives the server's properties
\* (it holds them all), or None, which leaves the cache empty
FetchObservedProperties ==
    /\ pc = "fetch_props"
    /\ \/ /\ obs_props_cache' = "full"
          /\ fetch_failed' = fetch_failed
          /\ token_fresh' = TokenAfterRequest
       \/ /\ obs_props_cache' = "empty"
          /\ fetch_failed' = TRUE
          /\ token_fresh' \in {token_fresh, TokenAfterRequest}
    /\ pc' = "obs_props"
    /\ UNCHANGED <<others, inputs, things_cache, ptb_ret, mot_ret, export_ret, writes,
                   callvars, poolvars, retvars>>

\* get_or_create_observed_properties: POSTs every property the cache lacks;
\* a POST that fails makes get_entity_id(None) raise
GetOrCreateObservedProperties ==
    /\ pc = "obs_props"
    /\ \/ /\ obs_props_cache = "full"
          /\ pc' = "sensor"
          /\ UNCHANGED <<writes, token_fresh>>
       \/ /\ obs_props_cache = "empty"
          /\ writes' = writes \cup {"ObservedProperties"}
          /\ \/ pc' = "sensor" /\ token_fresh' = TokenAfterRequest
             \/ pc' = "raised" /\ token_fresh' \in {token_fresh, TokenAfterRequest}
    /\ UNCHANGED <<others, inputs, runvars, callvars, poolvars, retvars>>

\* create_simulation_sensor: one POST on Sensors
CreateSimulationSensor ==
    /\ pc = "sensor"
    /\ writes' = writes \cup {"Sensors"}
    /\ \/ pc' = "ptb" /\ token_fresh' = TokenAfterRequest
       \/ pc' = "raised" /\ token_fresh' \in {token_fresh, TokenAfterRequest}
    /\ UNCHANGED <<others, inputs, runvars, callvars, poolvars, retvars>>

(***************************************************************************)
(* process_things_batch and mark_obsolete_things.                          *)
(***************************************************************************)
\* sum(1 for r in responses if 200 <= r.get('status', 0) < 300)
SuccessCount(responses) == Cardinality({i \in 1..Len(responses) : IsSuccess(responses[i])})

\* process_things_batch up to its call of batch_request
ProcessThingsBatchPrepare ==
    /\ pc = "ptb"
    /\ LET all_requests == AllRequests(things_data, things_cache)
       IN IF all_requests = <<>>
          THEN /\ ptb_ret' = "True"
               /\ pc' = "mot"
               /\ UNCHANGED callvars
          ELSE /\ batch_requests' = all_requests
               /\ pass' = "main"
               /\ pc' = "br_plan"
               /\ UNCHANGED <<ptb_ret, batches>>
    /\ things_cache' = CacheAfterLoop(things_data, things_cache, 1)
    /\ UNCHANGED <<others, inputs, obs_props_cache, fetch_failed, mot_ret,
                   export_ret, writes, token_fresh, poolvars, retvars>>

\* what process_things_batch returns for the value of batch_request
ProcessThingsBatchResult(ret, responses) ==
    IF ret = "None" THEN "False"
    ELSE LET success_count == SuccessCount(responses)
             error_count == Len(responses) - success_count
         IN IF error_count = 0 THEN "True" ELSE "False"

ProcessThingsBatchFinish ==
    /\ pc = "br_ret" /\ pass = "main"
    /\ ptb_ret' = ProcessThingsBatchResult(br_ret, all_responses)
    /\ pc' = "mot"
    /\ UNCHANGED <<others, inputs, things_cache, obs_props_cache, fetch_failed, mot_ret,
                   export_ret, writes, token_fresh, callvars, poolvars, retvars>>

\* mark_obsolete_things up to its call of batch_request
MarkObsoletePrepare ==
    /\ pc = "mot"
    /\ LET requests == ObsoleteRequests(things_cache, FeatureIds(things_data))
       IN IF requests = <<>>
          THEN /\ mot_ret' = "True"
               /\ pc' = "ret"
               /\ UNCHANGED callvars
          ELSE /\ batch_requests' = requests
               /\ pass' = "obsolete"
               /\ pc' = "br_plan"
               /\ UNCHANGED <<mot_ret, batches>>
    /\ things_cache' = CacheAfterMarkObsolete(things_cache, FeatureIds(things_data))
    /\ UNCHANGED <<others, inputs, obs_props_cache, fetch_failed, ptb_ret,
                   export_ret, writes, token_fresh, poolvars, retvars>>

\* what mark_obsolete_things returns for the value of batch_request
MarkObsoleteResult(ret, responses, n_obsolete) ==
    IF ret = "None" THEN "False"
    ELSE IF SuccessCount(responses) = n_obsolete THEN "True" ELSE "False"

MarkObsoleteFinish ==
    /\ pc = "br_ret" /\ pass = "obsolete"
    /\ mot_ret' = MarkObsoleteResult(br_ret, all_responses, Len(batch_requests))
    /\ pc' = "ret"
    /\ UNCHANGED <<others, inputs, things_cache, obs_props_cache, fetch_failed, ptb_ret,
                   export_ret, writes, token_fresh, callvars, poolvars, retvars>>

\* the value export_to_frost returns after both passes
ExportResult(ptb, mot) == "True"

ExportReturn ==
    /\ pc = "ret"
    /\ export_ret' = ExportResult(ptb_ret, mot_ret)
    /\ pc' = "done"
    /\ UNCHANGED <<others, inputs, things_cache, obs_props_cache, fetch_failed, ptb_ret,
                   mot_ret, writes, token_fresh, callvars, poolvars, retvars>>

(***************************************************************************)
(* batch_request: plan, thread pool, collection, reassembly.               *)
(***************************************************************************)
BatchNums == 1..Len(batches)

\* the batch sequence numbers and the split, then executor.submit of every
\* batch in ascending batch number
BatchRequestPlan ==
    /\ pc = "br_plan"
    /\ batches' = SplitBatches(batch_requests, batch_size)
    /\ bstate' = [b \in 1..Len(batches') |-> "queued"]
    /\ reply' = [b \in 1..Len(batches') |-> <<>>]
    /\ sent' = [b \in 1..Len(batches') |-> 0]
    /\ results_by_batch' = <<>>
    /\ br_ret' = "pending"
    /\ all_responses' = <<>>
    /\ pc' = "br_collect"
    /\ UNCHANGED <<others, inputs, runvars, writes, token_fresh, pass, batch_requests>>

\* the executor lives from the submit to the end of the with block
PoolAlive == pc \in {"br_collect", "br_join"}

\* batches a worker thread is running _send_single_batch for
Busy == {b \in BatchNums : bstate[b] \in {"token", "inflight"}}
\* batches whose future is done
Done == {b \in BatchNums : bstate[b] \in {"ok", "failed", "unsent"}}

\* a pool that starts a thread per submitted batch
WorkerFreeUnbounded == TRUE

\* ThreadPoolExecutor(max_workers): a thread is idle
WorkerFree == Cardinality(Busy) < max_workers

\* the work queue is first in, first out
NextQueued(b) == bstate[b] = "queued" /\ \A c \in 1..(b - 1) : bstate[c] # "queued"

\* session.post of the batch to $batch
SendBatch(b) ==
    /\ sent' = [sent EXCEPT ![b] = @ + 1]
    /\ writes' = writes \cup {"$batch"}

\* a worker takes batch b: _send_single_batch -> post -> _get_headers ->
\* get_token; with a fresh token (or no auth) the batch is sent, otherwise
\* the worker asks the token endpoint first
StartBatch(b) ==
    /\ PoolAlive
    /\ NextQueued(b)
    /\ WorkerFree
    /\ IF auth /\ ~token_fresh
       THEN /\ bstate' = [bstate EXCEPT ![b] = "token"]
            /\ UNCHANGED <<sent, writes>>
       ELSE /\ bstate' = [bstate EXCEPT ![b] = "inflight"]
            /\ SendBatch(b)
    /\ UNCHANGED <<others, inputs, pc, runvars, token_fresh, callvars, reply, retvars>>

\* the token endpoint answers the worker of batch b: the token is cached and
\* the batch sent, or raise_for_status raises and the batch is never sent
TokenReply(b) ==
    /\ PoolAlive
    /\ bstate[b] = "token"
    /\ \/ /\ token_fresh' = TRUE
          /\ bstate' = [bstate EXCEPT ![b] = "inflight"]
          /\ SendBatch(b)
       \/ /\ bstate' = [bstate EXCEPT ![b] = "unsent"]
          /\ UNCHANGED <<token_fresh, sent, writes>>
    /\ UNCHANGED <<others, inputs, pc, runvars, callvars, reply, retvars>>

\* a send failure that puts the batch back into the queue
AfterSendFailureRequeue(b) == [bstate EXCEPT ![b] = "queued"]

\* the state of batch b after its send failed (no retry)
AfterSendFailure(b) == [bstate EXCEPT ![b] = "failed"]

\* the $batch request of batch b returns: its 'responses', or a transport
\* error / non-2xx envelope, which raises in the worker
BatchReply(b) ==
    /\ PoolAlive
    /\ bstate[b] = "inflight"
    /\ \/ \E r \in ReplyChoices(batches[b]) :
             /\ reply' = [reply EXCEPT ![b] = r]
             /\ bstate' = [bstate EXCEPT ![b] = "ok"]
       \/ /\ bstate' = AfterSendFailure(b)
          /\ UNCHANGED reply
    /\ UNCHANGED <<others, inputs, pc, runvars, writes, token_fresh, callvars, sent, retvars>>

\* keys of results_by_batch
Collected == {results_by_batch[i].batch_num : i \in 1..Len(results_by_batch)}
\* results_by_batch[batch_num]
ResultsOf(results, batch_num) ==
    results[CHOOSE i \in 1..Len(results) : results[i].batch_num = batch_num].responses

\* as_completed yields the done future of batch b, whose result() returns
CollectResult(b) ==
    /\ pc = "br_collect"
    /\ b \in BatchNums \ Collected
    /\ bstate[b] = "ok"
    /\ results_by_batch' = Append(results_by_batch, [batch_num |-> b, responses |-> reply[b]])
    /\ UNCHANGED <<others, inputs, pc, runvars, writes, token_fresh, callvars, poolvars,
                   br_ret, all_responses>>

\* as_completed yields the done future of batch b, whose result() raises:
\* the exception leaves the with block
CollectRaise(b) ==
    /\ pc = "br_collect"
    /\ b \in BatchNums
    /\ bstate[b] \in {"failed", "unsent"}
    /\ pc' = "br_join"
    /\ UNCHANGED <<others, inputs, runvars, writes, token_fresh, callvars, poolvars, retvars>>

\* a shutdown that does not wait
JoinReadyNoWait == TRUE

\* a shutdown that waits for the queue to drain, not for the running batches
JoinReadyQueueDrained == \A b \in BatchNums : bstate[b] # "queued"

\* executor.__exit__ is shutdown(wait=True): it returns when no batch is
\* queued or running
JoinReady == Done = BatchNums

\* the exception reaches the except clause after the pool has shut down
ExecutorJoin ==
    /\ pc = "br_join"
    /\ JoinReady
    /\ br_ret' = "None"
    /\ pc' = "br_ret"
    /\ UNCHANGED <<others, inputs, runvars, writes, token_fresh, callvars, poolvars,
                   results_by_batch, all_responses>>

RECURSIVE ReassembleAsCompleted(_, _, _)
\* the responses in the order the batches completed (results_by_batch.values())
ReassembleAsCompleted(results, from, num_batches) ==
    IF from > Len(results) THEN <<>>
    ELSE results[from].responses \o ReassembleAsCompleted(results, from + 1, num_batches)

RECURSIVE Reassemble(_, _, _)
\* for batch_num in range(from, num_batches + 1): extend(results_by_batch[batch_num])
Reassemble(results, from, num_batches) ==
    IF from > num_batches THEN <<>>
    ELSE ResultsOf(results, from) \o Reassemble(results, from + 1, num_batches)

\* every future has been yielded: the with block ends and the responses are
\* put together
BatchRequestReturn ==
    /\ pc = "br_collect"
    /\ Collected = BatchNums
    /\ all_responses' = Reassemble(results_by_batch, 1,
                                   NumBatches(Len(batch_requests), batch_size))
    /\ br_ret' = "list"
    /\ pc' = "br_ret"
    /\ UNCHANGED <<others, inputs, runvars, writes, token_fresh, callvars, poolvars,
                   results_by_batch>>

(***************************************************************************)
(* Specification.                                                          *)
(***************************************************************************)
MainStep ==
    \/ FetchThings
    \/ FetchObservedProperties
    \/ GetOrCreateObservedProperties
    \/ CreateSimulationSensor
    \/ ProcessThingsBatchPrepare
    \/ ProcessThingsBatchFinish
    \/ MarkObsoletePrepare
    \/ MarkObsoleteFinish
    \/ ExportReturn
    \/ BatchRequestPlan
    \/ \E b \in BatchNums : CollectResult(b)
    \/ \E b \in BatchNums : CollectRaise(b)
    \/ ExecutorJoin
    \/ BatchRequestReturn

WorkerStep ==
    \/ \E b \in BatchNums : StartBatch(b)
    \/ \E b \in BatchNums : TokenReply(b)
    \/ \E b \in BatchNums : BatchReply(b)

Next == MainStep \/ WorkerStep \/ TokenExpires

Spec == Init /\ [][Next]_vars

\* the threads are scheduled and every transport call returns
FairSpec == Spec /\ WF_vars(MainStep) /\ WF_vars(WorkerStep)


(***************************************************************************)
(* The reconciler on its own: the preparation loop of process_things_batch *)
(* run twice and mark_obsolete_things, over the desired lists              *)
(* export_to_frost builds (nodes followed by links) and the caches         *)
(* get_all_things_with_locations may build.                                *)
(***************************************************************************)
\* links of the INP file
MaxLinks == 2
\* datastreams per desired entity of the reconciler on its own
MaxChildren == 2

\* ids of the links of the INP file, in section order; SWMM ids are unique
\* among the nodes and among the links, a link may bear the id of a node
LinkPool == <<"L1", "N1", "L3", "L4">>

\* tools_sensorthings.SWMM_LINK_PROPERTIES, in its order
SWMM_LINK_PROPERTIES == <<"flow", "depth", "velocity", "volume", "capacity">>

\* the thing_data dict _prepare_links_things_data builds
LinkThingData(name, nds) ==
    [name |-> name,
     location |-> [type |-> "LineString", coordinates |-> name],
     Datastreams |-> [i \in 1..nds |-> Datastream(name, SWMM_LINK_PROPERTIES[i])],
     properties |-> [link_type |-> "CONDUIT"]]

\* all_things = node_things + link_things
AllThingsLists ==
    {[i \in 1..n |-> ThingData(NamePool[i], nds)] \o [i \in 1..m |-> LinkThingData(LinkPool[i], nds)] :
        n \in 0..MaxThings, m \in 0..MaxLinks, nds \in 0..MaxChildren}

\* the Things a server may return: with or without a Location, the Location
\* at the desired geometry or elsewhere, the properties with or without a
\* state, or none
RemoteThingVariants(name) ==
    {[name |-> name, id |-> RemoteId(name), properties |-> p, Locations |-> l] :
        p \in {[state |-> "obsolete", owner |-> name], [owner |-> name], [k \in {} |-> ""]},
        l \in {<<>>,
               <<[id |-> LocationId(name), location |-> NewGeometry(name)]>>,
               <<[id |-> LocationId(name), location |-> OldGeometry(name)]>>}}

ReconRemoteLists ==
    LET known == RemoteThingVariants(KnownName)
        stale == RemoteThing(StaleName, OldGeometry(StaleName))
    IN {<<>>, <<stale>>} \cup {<<k>> : k \in known} \cup {<<k, stale>> : k \in known}

\* the state after the snapshot has been fetched
ReconInit ==
    /\ DbInit
    /\ PagesIdle
    /\ TokenIdle
    /\ things_data \in AllThingsLists
    /\ \E things \in ReconRemoteLists : things_cache = BuildThingsCache(things)
    /\ batch_size \in 1..MaxBatchSize
    /\ max_workers = 1
    /\ auth = FALSE
    /\ pc = "recon"
    /\ obs_props_cache = "full"
    /\ fetch_failed = FALSE
    /\ writes = {}
    /\ ptb_ret = "pending"
    /\ mot_ret = "pending"
    /\ export_ret = "pending"
    /\ token_fresh = FALSE
    /\ pass = "none"
    /\ batch_requests = <<>>
    /\ batches = <<>>
    /\ bstate = <<>>
    /\ reply = <<>>
    /\ sent = <<>>
    /\ results_by_batch = <<>>
    /\ br_ret = "pending"
    /\ all_responses = <<>>

\* the preparation loop of process_things_batch: all_requests built from
\* things_data and the cache, which the loop hands to every call
ReconPrepare ==
    /\ pc = "recon"
    /\ batch_requests' = AllRequests(things_data, things_cache)
    /\ things_cache' = CacheAfterLoop(things_data, things_cache, 1)
    /\ pass' = "main"
    /\ pc' = "recon_prepared"
    /\ UNCHANGED <<others, inputs, obs_props_cache, fetch_failed, ptb_ret, mot_ret, export_ret,
                   writes, token_fresh, batches, poolvars, retvars>>

\* the preparation loop once more, on the same things_data and cache objects
ReconPrepareAgain ==
    /\ pc = "recon_prepared"
    /\ batch_requests' = AllRequests(things_data, things_cache)
    /\ things_cache' = CacheAfterLoop(things_data, things_cache, 1)
    /\ pc' = "recon_again"
    /\ UNCHANGED <<others, inputs, obs_props_cache, fetch_failed, ptb_ret, mot_ret, export_ret,
                   writes, token_fresh, pass, batches, poolvars, retvars>>

\* batch_request up to the submit: the split of all_requests
ReconPlan ==
    /\ pc = "recon_again"
    /\ batches' = SplitBatches(batch_requests, batch_size)
    /\ pc' = "recon_planned"
    /\ UNCHANGED <<others, inputs, runvars, writes, token_fresh, pass, batch_requests,
                   poolvars, retvars>>

\* mark_obsolete_things: its batch_requests
ReconMarkObsolete ==
    /\ pc = "recon_planned"
    /\ batch_requests' = ObsoleteRequests(things_cache, FeatureIds(things_data))
    /\ things_cache' = CacheAfterMarkObsolete(things_cache, FeatureIds(things_data))
    /\ pass' = "obsolete"
    /\ pc' = "recon_marked"
    /\ UNCHANGED <<others, inputs, obs_props_cache, fetch_failed, ptb_ret, mot_ret, export_ret,
                   writes, token_fresh, batches, poolvars, retvars>>

ReconNext == ReconPrepare \/ ReconPrepareAgain \/ ReconPlan \/ ReconMarkObsolete

ReconSpec == ReconInit /\ [][ReconNext]_vars


(***************************************************************************)
(* tools_db: the connection factory and the default connection.            *)
(***************************************************************************)
\* calls in one sequence
MaxCalls == 4

\* no export_to_frost run is going on
NoRun ==
    /\ things_data = <<>>
    /\ batch_size = 1
    /\ max_workers = 1
    /\ auth = FALSE
    /\ pc = "idle"
    /\ things_cache = <<>>
    /\ obs_props_cache = "empty"
    /\ fetch_failed = FALSE
    /\ writes = {}
    /\ ptb_ret = "pending"
    /\ mot_ret = "pending"
    /\ export_ret = "pending"
    /\ token_fresh = FALSE
    /\ pass = "none"
    /\ batch_requests = <<>>
    /\ batches = <<>>
    /\ bstate = <<>>
    /\ reply = <<>>
    /\ sent = <<>>
    /\ results_by_batch = <<>>
    /\ br_ret = "pending"
    /\ all_responses = <<>>

runstate == <<inputs, pc, runvars, writes, token_fresh, callvars, poolvars, retvars>>

\* a create call that makes every DAO the default
NewDefaultAlways(current, dao, set_as_default) == dao

\* config.session_vars['db_connection'] after a create call that connected
NewDefault(current, dao, set_as_default) == IF set_as_default THEN dao ELSE current

\* the open DAOs after a create call that connected: the former default is
\* closed when the new DAO replaces it
OpenAfterCreate(open, current, dao, set_as_default) ==
    (IF set_as_default /\ current # 0 THEN open \ {current} ELSE open) \cup {dao}

\* create_pg_connection, create_gpkg_connection and create_sqlite_connection:
\* a new DAO; when its connect() succeeds it may become the default and is
\* returned, otherwise None is returned
CreateConnection(fn, set_as_default, connected) ==
    /\ Len(db_calls) < MaxCalls
    /\ LET dao == Len(db_calls) + 1
       IN IF connected
          THEN /\ db_connection' = NewDefault(db_connection, dao, set_as_default)
               /\ dao_open' = OpenAfterCreate(dao_open, db_connection, dao, set_as_default)
               /\ db_calls' = Append(db_calls, [fn |-> fn, set_as_default |-> set_as_default,
                                                ret |-> dao])
          ELSE /\ db_calls' = Append(db_calls, [fn |-> fn, set_as_default |-> set_as_default,
                                                ret |-> 0])
               /\ UNCHANGED <<db_connection, dao_open>>
    /\ UNCHANGED <<runstate, pagevars, tokvars>>

create_pg_connection ==
    \E set_as_default, connected \in BOOLEAN :
        CreateConnection("create_pg_connection", set_as_default, connected)

create_gpkg_connection ==
    \E set_as_default, connected \in BOOLEAN :
        CreateConnection("create_gpkg_connection", set_as_default, connected)

create_sqlite_connection ==
    \E set_as_default, connected \in BOOLEAN :
        CreateConnection("create_sqlite_connection", set_as_default, connected)

\* get_connection()
get_connection == db_connection

\* close_connection: closes the default DAO, if there is one, and forgets it
close_connection ==
    /\ Len(db_calls) < MaxCalls
    /\ IF db_connection # 0
       THEN /\ dao_open' = dao_open \ {db_connection}
            /\ db_connection' = 0
       ELSE UNCHANGED <<db_connection, dao_open>>
    /\ db_calls' = Append(db_calls, [fn |-> "close_connection", set_as_default |-> FALSE,
                                     ret |-> 0])
    /\ UNCHANGED <<runstate, pagevars, tokvars>>

DbNext ==
    \/ create_pg_connection
    \/ create_gpkg_connection
    \/ create_sqlite_connection
    \/ close_connection

DbSpecInit == NoRun /\ DbInit /\ PagesIdle /\ TokenIdle

DbSpec == DbSpecInit /\ [][DbNext]_vars

(***************************************************************************)
(* HeFrostClient.get_entities: the pagination loop.                        *)
(***************************************************************************)
\* self.base_url, and the root under which a server behind a proxy builds
\* its links
base_url == "http://frost/v1.1/"
ProxyUrl == "http://proxy/v1.1/"

\* the JSON of page i of a chain of n pages with cnt items: 'value' (absent
\* when cnt = -1) and '@iot.nextLink' (absent, <<>>, on the last page), an
\* absolute URL <<root, page>>
Page(i, n, cnt, root) ==
    [has_value |-> cnt >= 0,
     value |-> [j \in 1..cnt |-> <<i, j>>],
     next_link |-> IF i < n THEN <<root, i + 1>> ELSE <<>>]

\* the finite chains of pages a server may hold
PageChains ==
    UNION {{[i \in 1..n |-> Page(i, n, cnt[i], root)] :
                cnt \in [1..n -> -1..MaxItems], root \in {base_url, ProxyUrl}} :
              n \in 1..MaxPages}

\* get_entities has built the first endpoint, a relative one, and the empty list
PagesInit ==
    /\ pages \in PageChains
    /\ endpoint = <<"", 1>>
    /\ entities = <<>>
    /\ ge_ret = "pending"

\* a loop that does not follow the next link
NextEndpointNone(data) == <<>>

\* next_link = data.get('@iot.nextLink'); the endpoint of the next turn:
\* next_link.replace(self.base_url, '') or None
NextEndpoint(data) ==
    IF data.next_link # <<>>
    THEN IF data.next_link[1] = base_url THEN <<"", data.next_link[2]>> ELSE data.next_link
    ELSE <<>>

\* HeFrostClient.get: the URL requested for an endpoint, and the page it names
GetUrl(ep) == IF ep[1] = "" THEN <<base_url, ep[2]>> ELSE ep
PageOf(ep) == GetUrl(ep)[2]

\* one turn of the while loop: the GET of the endpoint succeeds
GetPage ==
    /\ ge_ret = "pending"
    /\ endpoint # <<>>
    /\ LET data == pages[PageOf(endpoint)]
       IN /\ entities' = (IF data.has_value THEN entities \o data.value ELSE entities)
          /\ endpoint' = NextEndpoint(data)
    /\ UNCHANGED <<runstate, dbvars, tokvars, pages, ge_ret>>

\* one turn of the while loop: the GET raises, get_entities returns None
GetPageFails ==
    /\ ge_ret = "pending"
    /\ endpoint # <<>>
    /\ ge_ret' = "None"
    /\ UNCHANGED <<runstate, dbvars, tokvars, pages, endpoint, entities>>

\* the loop has ended: return entities
GetEntitiesReturn ==
    /\ ge_ret = "pending"
    /\ endpoint = <<>>
    /\ ge_ret' = "list"
    /\ UNCHANGED <<runstate, dbvars, tokvars, pages, endpoint, entities>>

PagesNext == GetPage \/ GetPageFails \/ GetEntitiesReturn

PagesSpecInit == NoRun /\ DbInit /\ PagesInit /\ TokenIdle

\* the thread runs and every GET returns or raises
PagesSpec == PagesSpecInit /\ [][PagesNext]_vars /\ WF_vars(PagesNext)

(***************************************************************************)
(* KeycloakAuth.get_token with its callers: the main thread and the        *)
(* workers of batch_request reach it through _get_headers, without a lock. *)
(***************************************************************************)
\* time.time() advances
Tick ==
    /\ ticks < MaxTicks
    /\ \E d \in TickSteps : clock' = clock + d
    /\ ticks' = ticks + 1
    /\ UNCHANGED <<runstate, dbvars, pagevars, kc_token, kc_token_expiry, gt_pc,
                   current_time, expires_in, gt_ret>>

\* lines 38 and 41: the time of the call and the validity check
GetTokenCall(t) ==
    /\ gt_pc[t] = "idle"
    /\ current_time' = [current_time EXCEPT ![t] = clock]
    /\ gt_pc' = [gt_pc EXCEPT ![t] =
                    IF StillValid(kc_token, clock, kc_token_expiry)
                    THEN "return_cached" ELSE "requesting"]
    /\ gt_ret' = [gt_ret EXCEPT ![t] = NoReturn]
    /\ UNCHANGED <<runstate, dbvars, pagevars, clock, ticks, kc_token, kc_token_expiry,
                   expires_in>>

\* line 42: return self._token
ReturnCached(t) ==
    /\ gt_pc[t] = "return_cached"
    /\ gt_ret' = [gt_ret EXCEPT ![t] = [how |-> "cached", token |-> kc_token,
                                        at |-> current_time[t]]]
    /\ gt_pc' = [gt_pc EXCEPT ![t] = "idle"]
    /\ UNCHANGED <<runstate, dbvars, pagevars, clock, ticks, kc_token, kc_token_expiry,
                   current_time, expires_in>>

\* lines 53 to 59: the token endpoint replies; self._token is assigned and
\* expires_in is read from the reply
TokenEndpointReply(t) ==
    /\ gt_pc[t] = "requesting"
    /\ \E e \in RepliedExpiresIn :
          LET given == IF e = 0 THEN DefaultExpiresIn ELSE e
          IN /\ expires_in' = [expires_in EXCEPT ![t] = given]
             /\ kc_token' = AccessToken(t, given)
    /\ gt_pc' = [gt_pc EXCEPT ![t] = "store_expiry"]
    /\ UNCHANGED <<runstate, dbvars, pagevars, clock, ticks, kc_token_expiry,
                   current_time, gt_ret>>

\* lines 53 and 54: requests.post or raise_for_status raises
TokenRequestFails(t) ==
    /\ gt_pc[t] = "requesting"
    /\ gt_ret' = [gt_ret EXCEPT ![t] = [how |-> "raised", token |-> NoToken,
                                        at |-> current_time[t]]]
    /\ gt_pc' = [gt_pc EXCEPT ![t] = "idle"]
    /\ UNCHANGED <<runstate, dbvars, pagevars, clock, ticks, kc_token, kc_token_expiry,
                   current_time, expires_in>>

\* lines 60 to 63: self._token_expiry is assigned, self._token is returned
StoreExpiry(t) ==
    /\ gt_pc[t] = "store_expiry"
    /\ kc_token_expiry' = current_time[t] + expires_in[t]
    /\ gt_ret' = [gt_ret EXCEPT ![t] = [how |-> "fresh", token |-> kc_token,
                                        at |-> current_time[t]]]
    /\ gt_pc' = [gt_pc EXCEPT ![t] = "idle"]
    /\ UNCHANGED <<runstate, dbvars, pagevars, clock, ticks, kc_token, current_time,
                   expires_in>>

get_token ==
    \E t \in Callers :
        \/ GetTokenCall(t)
        \/ ReturnCached(t)
        \/ TokenEndpointReply(t)
        \/ TokenRequestFails(t)
        \/ StoreExpiry(t)

TokenNext == Tick \/ get_token

TokenSpecInit == NoRun /\ DbInit /\ PagesIdle /\ TokenIdle

TokenSpec == TokenSpecInit /\ [][TokenNext]_vars

(***************************************************************************)
(* Properties.                                                             *)
(***************************************************************************)
RECURSIVE SumLen(_, _)
\* the number of elements of the first k sequences of seqs
SumLen(seqs, k) == IF k = 0 THEN 0 ELSE SumLen(seqs, k - 1) + Len(seqs[k])

\* the batch that holds position i of batch_requests
BatchOfIndex(i) ==
    CHOOSE b \in BatchNums : SumLen(batches, b - 1) < i /\ i <= SumLen(batches, b)

\* the positions in all_requests of the operations of group g
GroupIndexes(groups, g) == (SumLen(groups, g - 1) + 1)..SumLen(groups, g)

\* batch_request has returned to its caller, which has not yet gone on
Returned == pc = "br_ret"

\* the batches whose future raised
FailedBatches == {b \in BatchNums : bstate[b] \in {"failed", "unsent"}}
OkBatches == {b \in BatchNums : bstate[b] = "ok"}
InFlight == {b \in BatchNums : bstate[b] = "inflight"}

\* C1: in the batches of the main pass, all operations of one entity's
\* operation group are in the same batch.
C1_GroupsInOneBatch ==
    (PoolAlive /\ pass = "main") =>
        LET groups == OperationGroups(things_data, things_cache)
        IN \A g \in 1..Len(groups) :
              \A i, j \in GroupIndexes(groups, g) : BatchOfIndex(i) = BatchOfIndex(j)

\* C2: the list batch_request returns is the concatenation of the servers'
\* per-batch response lists in ascending batch number, whatever the order
\* in which the batches completed.
C2_ResultsInSubmissionOrder ==
    (Returned /\ br_ret = "list") => all_responses = Flatten(reply)

\* C2 witness: a list returned with several workers, the first batch to
\* complete not being batch 1, every batch answered.
C2_Witness ==
    /\ Returned /\ br_ret = "list"
    /\ max_workers > 1 /\ Len(batches) >= 2
    /\ results_by_batch[1].batch_num # 1
    /\ \A b \in BatchNums : reply[b] # <<>>

\* C3: a run in which a bulk fetch failed sends no write request.
C3_NoWriteAfterFetchFailure == fetch_failed => writes = {}

\* C4: when batch_request returns, the responses of every batch that
\* succeeded are in what the caller gets, also when another batch failed.
C4_SucceededBatchesReturned ==
    Returned =>
        \A b \in OkBatches : \A i \in 1..Len(reply[b]) :
            br_ret = "list" /\ \E j \in 1..Len(all_responses) : all_responses[j] = reply[b][i]

\* every operation of the call that has just returned has a 2xx result
EveryOperationSucceeded ==
    \A b \in BatchNums : \A i \in 1..Len(batches[b]) :
        /\ bstate[b] = "ok"
        /\ \E k \in 1..Len(reply[b]) :
              reply[b][k].id = batches[b][i].id /\ IsSuccess(reply[b][k])

\* C5: a pass reports success only if every operation it submitted got a
\* 2xx result.
C5_SuccessOnlyIfAllSucceeded ==
    /\ (pc = "mot" /\ ptb_ret = "True") => EveryOperationSucceeded
    /\ (pc = "ret" /\ pass = "obsolete" /\ mot_ret = "True") => EveryOperationSucceeded

\* C6: export_to_frost returns True only if both passes reported success.
C6_RunReportsFailures ==
    export_ret = "True" => (ptb_ret = "True" /\ mot_ret = "True")

\* C7: at most one request to the token endpoint is outstanding at a time
\* (single-flight refresh).
C7_SingleFlightRefresh ==
    Cardinality({b \in BatchNums : bstate[b] = "token"}) <= 1

\* C8: at most max_workers batch requests are in flight, the other batches
\* wait queued, and the batches are the ones planned before the first send.
C8_BoundedInFlight ==
    PoolAlive =>
        /\ Cardinality(InFlight) <= max_workers
        /\ Cardinality(Busy) <= max_workers
        /\ \A b \in BatchNums \ (Busy \cup Done) : bstate[b] = "queued" /\ sent[b] = 0
        /\ batches = SplitBatches(batch_requests, batch_size)
        /\ DOMAIN bstate = BatchNums

\* C8 witness: more batches than workers, every worker with a request in
\* flight, a batch waiting.
C8_Witness ==
    /\ PoolAlive
    /\ Len(batches) > max_workers
    /\ Cardinality(InFlight) = max_workers
    /\ \E b \in BatchNums : bstate[b] = "queued"

\* C9: batch_request returns only when every batch it submitted has
\* completed, and it returns once it has been called.
C9_ReturnsAfterAllComplete ==
    /\ [](Returned => Done = BatchNums)
    /\ (pc = "br_plan") ~> Returned

\* C9 witness: batch_request has returned None after a batch failed while
\* another batch of the call was answered.
C9_Witness ==
    /\ Returned /\ br_ret = "None"
    /\ FailedBatches # {} /\ OkBatches # {}

\* C10 (as stated): when batch_request returns, every planned batch has
\* been sent to $batch exactly once.
C10_SentExactlyOnce ==
    Returned => \A b \in BatchNums : sent[b] = 1

\* C10 (amended): no batch is ever sent twice, and when batch_request
\* returns every batch has been sent once, except those whose request
\* failed before the POST (the token request failed), which were not sent.
C10_SentAtMostOnce ==
    /\ \A b \in BatchNums : sent[b] <= 1
    /\ Returned =>
          \A b \in BatchNums : sent[b] = (IF bstate[b] = "unsent" THEN 0 ELSE 1)

\* C10 witness: batch 1 was sent and failed, and a later batch was sent
\* all the same.
C10_Witness ==
    /\ Returned
    /\ Len(batches) >= 2
    /\ bstate[1] = "failed" /\ sent[1] = 1
    /\ \E b \in BatchNums : b > 1 /\ sent[b] = 1

\* C11: a list returned by batch_request has one result per submitted
\* operation, the result at position i being that of the operation at
\* position i.
C11_IndexForIndex ==
    (Returned /\ br_ret = "list") =>
        /\ Len(all_responses) = Len(batch_requests)
        /\ \A i \in 1..Len(batch_requests) : all_responses[i].id = batch_requests[i].id

\* C12: in the main pass a group with more operations than batch_size is a
\* batch of its own, whole.
C12_OversizedGroupOwnBatch ==
    (PoolAlive /\ pass = "main") =>
        LET groups == OperationGroups(things_data, things_cache)
        IN \A g \in 1..Len(groups) :
              Len(groups[g]) > batch_size => \E b \in BatchNums : batches[b] = groups[g]

\* the reconciler has prepared all_requests (once or twice)
Prepared == pc \in {"recon_prepared", "recon_again"}

\* the operations prepared for the desired Thing at position g
GroupOf(g) == OperationGroups(things_data, things_cache)[g]

IsCreate(r) == r.method = "post" /\ r.url = Url("Things", 0)
IsPatch(r) == r.method = "patch"
IsLocationOp(r) == r.url.entity = "Locations"

\* C13: prepare_thing_requests emits no POST on Things for a name the cache
\* holds and no PATCH for a name the cache does not hold.
C13_CreateOnlyIfAbsent ==
    Prepared =>
        /\ batch_requests = Flatten(OperationGroups(things_data, things_cache))
        /\ \A g \in 1..Len(things_data) :
              \A i \in 1..Len(GroupOf(g)) :
                 IF things_data[g].name \in CacheNames(things_cache)
                 THEN ~IsCreate(GroupOf(g)[i])
                 ELSE ~IsPatch(GroupOf(g)[i])

\* C13 witness: requests prepared for a desired list that holds a cached
\* name and a name the cache lacks.
C13_Witness ==
    /\ Prepared
    /\ \E g, h \in 1..Len(things_data) :
          /\ things_data[g].name \in CacheNames(things_cache)
          /\ things_data[h].name \notin CacheNames(things_cache)
          /\ \E i \in 1..Len(batch_requests) : IsPatch(batch_requests[i])
          /\ \E i \in 1..Len(batch_requests) : IsCreate(batch_requests[i])

\* the location operations prepared for the desired Thing at position g
LocationOps(g) == {i \in 1..Len(GroupOf(g)) : IsLocationOp(GroupOf(g)[i])}

\* C14: for a cached name, exactly one location PATCH (on the cached
\* location id, where there is one) when the desired geometry differs from
\* the cached one or the cache entry has no location, none when they are
\* equal.
C14_LocationPatchIffChanged ==
    Prepared =>
        \A g \in 1..Len(things_data) :
           things_data[g].name \in CacheNames(things_cache) =>
              LET cached == Cached(things_cache, things_data[g].name)
                  differs == \/ cached.Locations = <<>>
                             \/ cached.Locations[1].location # things_data[g].location
              IN IF differs
                 THEN /\ Cardinality(LocationOps(g)) = 1
                      /\ \A i \in LocationOps(g) :
                            /\ IsPatch(GroupOf(g)[i])
                            /\ GroupOf(g)[i].body.location = things_data[g].location
                            /\ cached.Locations # <<>> =>
                                  GroupOf(g)[i].url.key = cached.Locations[1].id
                 ELSE LocationOps(g) = {}

\* positions of batch_requests that address the Thing with remote id thing_id
OpsOnThing(thing_id) ==
    {i \in 1..Len(batch_requests) : batch_requests[i].url = Url("Things", thing_id)}

\* merged is base with its state set to state: no key of base lost or changed
KeepsAllButState(merged, base, state) ==
    /\ DOMAIN merged = DOMAIN base \cup {"state"}
    /\ merged["state"] = state
    /\ \A k \in DOMAIN base \ {"state"} : merged[k] = base[k]

\* C15: mark_obsolete_things emits one PATCH per name of the cache that is
\* not desired, on its cached id, the body being its cached properties with
\* the state obsolete, and no other operation.
C15_ObsoleteExactlyStale ==
    pc = "recon_marked" =>
        LET stale == CacheNames(things_cache) \ FeatureIds(things_data)
        IN /\ Len(batch_requests) = Cardinality(stale)
           /\ \A name \in stale :
                 LET cached == Cached(things_cache, name)
                 IN /\ Cardinality(OpsOnThing(cached.id)) = 1
                    /\ \A i \in OpsOnThing(cached.id) :
                          /\ IsPatch(batch_requests[i])
                          /\ KeepsAllButState(batch_requests[i].body.properties,
                                              cached.properties, "obsolete")

\* C15 witness: the marker has run on a cache that holds a stale name and a
\* desired name, the desired list holding a name the cache lacks.
C15_Witness ==
    /\ pc = "recon_marked"
    /\ batch_requests # <<>>
    /\ CacheNames(things_cache) \ FeatureIds(things_data) # {}
    /\ CacheNames(things_cache) \cap FeatureIds(things_data) # {}
    /\ FeatureIds(things_data) \ CacheNames(things_cache) # {}

\* C16: the operative PATCH of a cached entity carries every cached
\* property but the state unchanged, and the state operative.
C16_AdditiveMerge ==
    Prepared =>
        \A g \in 1..Len(things_data) :
           things_data[g].name \in CacheNames(things_cache) =>
              LET cached == Cached(things_cache, things_data[g].name)
                  first == GroupOf(g)[1]
              IN /\ IsPatch(first)
                 /\ first.url = Url("Things", cached.id)
                 /\ KeepsAllButState(first.body.properties, cached.properties, "operative")

\* C16 witness: an operative PATCH prepared for a cached entity whose
\* remote properties hold a key besides the state.
C16_Witness ==
    /\ Prepared
    /\ \E g \in 1..Len(things_data) :
          /\ things_data[g].name \in CacheNames(things_cache)
          /\ DOMAIN Cached(things_cache, things_data[g].name).properties \ {"state"} # {}
          /\ \E i \in 1..Len(batch_requests) :
                /\ IsPatch(batch_requests[i])
                /\ batch_requests[i].body = GroupOf(g)[1].body

C18_CacheReadOnly ==
    [][pc # "fetch_things" => things_cache' = things_cache]_vars

\* C18 witness: both passes have run on a cache that holds Things, the main
\* pass with a failed operation, the obsolescence pass with success.
C18_Witness ==
    /\ pc = "ret"
    /\ things_cache # <<>>
    /\ pass = "obsolete"
    /\ ptb_ret = "False" /\ mot_ret = "True"

\* the symbolic ids a request refers to: the Thing of a posted Datastream
\* and of the Datastreams a deep insert carries
SymbolicRefs(r) ==
    IF r.url = Url("Datastreams", 0)
    THEN {r.body.Thing.ref} \ {""}
    ELSE IF IsCreate(r)
         THEN {r.body.Datastreams[i].Thing.ref : i \in 1..Len(r.body.Datastreams)} \ {""}
         ELSE {}

\* C19: in every batch of a call, each symbolic reference names the id of
\* an operation at an earlier position of the same batch.
C19_ReferencesResolveInBatch ==
    PoolAlive =>
        \A b \in BatchNums : \A i \in 1..Len(batches[b]) :
            \A ref \in SymbolicRefs(batches[b][i]) :
                \E j \in 1..(i - 1) : batches[b][j].id = RefId(ref)

\* C19 witness: a batch has been sent that creates a Thing under a symbolic
\* id together with its Datastreams, the Datastream operations of another
\* Thing being in another batch.
C19_Witness ==
    /\ PoolAlive /\ pass = "main"
    /\ Len(batches) >= 2
    /\ \E b \in BatchNums :
          /\ sent[b] = 1
          /\ \E i \in 1..Len(batches[b]) :
                /\ IsCreate(batches[b][i])
                /\ batches[b][i].id.ref # ""
                /\ batches[b][i].body.Datastreams # <<>>
    /\ \E b \in BatchNums : \E i \in 1..Len(batches[b]) :
          batches[b][i].url = Url("Datastreams", 0)

\* C20: no entity name has two operation groups in one run.
C20_NameInOneGroup ==
    Prepared =>
        /\ Len(OperationGroups(things_data, things_cache)) = Len(things_data)
        /\ \A g, h \in 1..Len(things_data) :
              g # h => things_data[g].name # things_data[h].name

\* the scenario: the cache holds N1 under id 5 with no properties, at the
\* geometry the INP file gives it; the desired list is N1 and N2, each with
\* one datastream; batch_size = 2
ScenarioCache ==
    <<[name |-> "N1", id |-> 5, properties |-> [k \in {} |-> ""],
       Locations |-> <<[id |-> 105, location |-> [type |-> "Point", coordinates |-> "N1"]]>>]>>

ScenarioDesired ==
    <<[name |-> "N1", location |-> [type |-> "Point", coordinates |-> "N1"],
       Datastreams |-> <<[name |-> <<"head", "N1">>, Thing |-> [num |-> 0, ref |-> ""]]>>,
       properties |-> [node_type |-> "JUNCTION"]],
      [name |-> "N2", location |-> [type |-> "Point", coordinates |-> "N2"],
       Datastreams |-> <<[name |-> <<"head", "N2">>, Thing |-> [num |-> 0, ref |-> ""]]>>,
       properties |-> [node_type |-> "JUNCTION"]]>>

InScenario ==
    /\ pc = "recon_planned"
    /\ things_cache = ScenarioCache
    /\ things_data = ScenarioDesired
    /\ batch_size = 2

ScenarioPatch ==
    [id |-> [num |-> 1, ref |-> ""], method |-> "patch",
     url |-> [entity |-> "Things", key |-> 5],
     body |-> [properties |-> [state |-> "operative"]]]

ScenarioPostDatastream ==
    [id |-> [num |-> 2, ref |-> ""], method |-> "post",
     url |-> [entity |-> "Datastreams", key |-> 0],
     body |-> [name |-> <<"head", "N1">>, Thing |-> [num |-> 5, ref |-> ""]]]

ScenarioDeepInsert ==
    [id |-> [num |-> 0, ref |-> "N2"], method |-> "post",
     url |-> [entity |-> "Things", key |-> 0],
     body |-> [name |-> "N2", location |-> [type |-> "Point", coordinates |-> "N2"],
               Datastreams |-> <<[name |-> <<"head", "N2">>, Thing |-> [num |-> 0, ref |-> ""]]>>,
               properties |-> [node_type |-> "JUNCTION", state |-> "operative"]]]

\* C21: in the scenario the operations are the PATCH on Things(5), the POST
\* of N1's datastream on id 5 and the deep insert of N2, in this order, and
\* the batches are [PATCH, POST datastream] and [deep insert].
C21_Scenario ==
    InScenario =>
        /\ batch_requests = <<ScenarioPatch, ScenarioPostDatastream, ScenarioDeepInsert>>
        /\ batches = <<<<ScenarioPatch, ScenarioPostDatastream>>, <<ScenarioDeepInsert>>>>

\* C21 witness: the scenario has been prepared and planned.
C21_Witness == InScenario /\ Len(batches) = 2

\* C22: the obsolescence pass starts when the main pass has returned and
\* every batch of it has completed, on the cache as fetched; the run never
\* goes back to fetching Things.
C22_ObsoleteAfterMain ==
    [][/\ (pass # "obsolete" /\ pass' = "obsolete") =>
             /\ pc = "mot"
             /\ ptb_ret \in {"True", "False"}
             /\ Done = BatchNums
             /\ things_cache' = things_cache
             /\ batch_requests' = ObsoleteRequests(things_cache, FeatureIds(things_data))
       /\ pc # "fetch_things" => pc' # "fetch_things"]_vars

\* C22 witness: an obsolete PATCH has been sent after a main pass in which
\* a batch failed.
C22_Witness ==
    /\ pass = "obsolete" /\ PoolAlive
    /\ ptb_ret = "False"
    /\ \E b \in BatchNums : sent[b] = 1

\* C23: for a name the cache lacks, the only operation is the POST on
\* Things with id thing_<name>, whose body is the thing_data (its location
\* and all its datastreams) with the state operative, also when it has no
\* datastream.
C23_SingleDeepInsert ==
    Prepared =>
        \A g \in 1..Len(things_data) :
           things_data[g].name \notin CacheNames(things_cache) =>
              /\ Len(GroupOf(g)) = 1
              /\ IsCreate(GroupOf(g)[1])
              /\ GroupOf(g)[1].id = RefId(things_data[g].name)
              /\ GroupOf(g)[1].body.name = things_data[g].name
              /\ GroupOf(g)[1].body.location = things_data[g].location
              /\ GroupOf(g)[1].body.Datastreams = things_data[g].Datastreams
              /\ GroupOf(g)[1].body.properties["state"] = "operative"
              /\ \E i \in 1..Len(batch_requests) : batch_requests[i] = GroupOf(g)[1]

\* C23 witness: a deep insert prepared for an uncached entity that has no
\* datastream.
C23_Witness ==
    /\ Prepared
    /\ \E i \in 1..Len(batch_requests) :
          /\ IsCreate(batch_requests[i])
          /\ batch_requests[i].body.Datastreams = <<>>

\* the PATCH operations prepared for the desired Thing at position g
PatchOps(g) == {i \in 1..Len(GroupOf(g)) : IsPatch(GroupOf(g)[i])}

\* C24: for a cached name with k datastreams, the group is its PATCH
\* operations followed by k POSTs on Datastreams, in the order of the
\* datastreams, each with its Thing set to the cached id.
C24_DatastreamPosts ==
    Prepared =>
        \A g \in 1..Len(things_data) :
           things_data[g].name \in CacheNames(things_cache) =>
              LET cached == Cached(things_cache, things_data[g].name)
                  np == Cardinality(PatchOps(g))
                  k == Len(things_data[g].Datastreams)
              IN /\ PatchOps(g) = 1..np
                 /\ Len(GroupOf(g)) = np + k
                 /\ \A i \in 1..k :
                       /\ GroupOf(g)[np + i].method = "post"
                       /\ GroupOf(g)[np + i].url = Url("Datastreams", 0)
                       /\ GroupOf(g)[np + i].body.name = things_data[g].Datastreams[i].name
                       /\ GroupOf(g)[np + i].body.Thing = [num |-> cached.id, ref |-> ""]

\* C24 witness: two datastream POSTs prepared for a cached entity after its
\* two PATCH operations.
C24_Witness ==
    /\ Prepared
    /\ \E g \in 1..Len(things_data) :
          /\ things_data[g].name \in CacheNames(things_cache)
          /\ Len(things_data[g].Datastreams) >= 2
          /\ Cardinality(PatchOps(g)) = 2
          /\ batch_requests # <<>>

\* positions of batch_requests whose id comes from the counter
CounterOps == {i \in 1..Len(batch_requests) : batch_requests[i].id.ref = ""}

\* C28 (as stated): every prepared operation has an id from the counter,
\* and the ids increase strictly in emission order.
C28_AllIdsFromCounter ==
    Prepared =>
        /\ CounterOps = 1..Len(batch_requests)
        /\ \A i, j \in CounterOps : i < j => batch_requests[i].id.num < batch_requests[j].id.num

\* C28 (amended): the operations of cached entities have ids from one
\* counter of the run, 1, 2, ... in emission order; the deep insert of an
\* uncached entity has the id thing_<name> and takes no number.
C28_CounterIdsIncrease ==
    Prepared =>
        /\ \A i \in CounterOps :
              batch_requests[i].id.num = Cardinality({j \in CounterOps : j <= i})
        /\ \A i \in 1..Len(batch_requests) :
              /\ i \notin CounterOps <=> IsCreate(batch_requests[i])
              /\ i \notin CounterOps => batch_requests[i].id = RefId(batch_requests[i].body.name)

\* C28 witness: operations of a cached entity, a deep insert, and again
\* operations of a cached entity, in this order.
C28_Witness ==
    /\ Prepared
    /\ \E i, j, k \in 1..Len(batch_requests) :
          /\ i < j /\ j < k
          /\ i \in CounterOps /\ j \notin CounterOps /\ k \in CounterOps

\* the least k with k * size >= n
CeilDiv(n, size) == CHOOSE k \in 0..n : k * size >= n /\ \A j \in 0..(k - 1) : j * size < n

\* C29: the planned batches, concatenated in sequence order, are the
\* operation list; none is empty; there are ceil(n / batch_size) of them,
\* the num_batches the reassembly loop counts to.
C29_BatchesConserveOperations ==
    pc = "recon_planned" =>
        /\ Flatten(batches) = batch_requests
        /\ \A b \in BatchNums : batches[b] # <<>> /\ Len(batches[b]) <= batch_size
        /\ Len(batches) = CeilDiv(Len(batch_requests), batch_size)
        /\ NumBatches(Len(batch_requests), batch_size) = Len(batches)

\* C29 witness: a plan of several batches whose last batch is shorter than
\* batch_size.
C29_Witness ==
    /\ pc = "recon_planned"
    /\ Len(batches) >= 2
    /\ Len(batches[Len(batches)]) < batch_size

\* the names of the desired list
DesiredNames == {things_data[g].name : g \in 1..Len(things_data)}

\* the remote ids of the desired entities the cache holds
DesiredRemoteIds ==
    {things_cache[i].id : i \in {j \in 1..Len(things_cache) : things_cache[j].name \in DesiredNames}}

\* C30: no request of the obsolescence pass addresses the Thing of a
\* desired name.
C30_NoDesiredMarkedObsolete ==
    pass = "obsolete" =>
        \A i \in 1..Len(batch_requests) :
            /\ batch_requests[i].url.entity = "Things"
            /\ batch_requests[i].url.key \notin DesiredRemoteIds
            /\ pc # "br_plan" =>
                  \A b \in BatchNums : \A k \in 1..Len(batches[b]) :
                      batches[b][k].url.key \notin DesiredRemoteIds

\* C30 witness: the obsolescence pass has sent its PATCH for a stale Thing
\* in a run whose main pass patched a cached desired Thing and created
\* another.
C30_Witness ==
    /\ pass = "obsolete" /\ PoolAlive
    /\ \E b \in BatchNums : sent[b] = 1
    /\ DesiredRemoteIds # {}
    /\ DesiredNames \ CacheNames(things_cache) # {}

RECURSIVE ExpectedDefault(_)
\* what the calls made so far leave as the default: the DAO of the last
\* successful create call with set_as_default, None if close_connection
\* was called after it or there is none
ExpectedDefault(calls) ==
    IF calls = <<>> THEN 0
    ELSE LET last == calls[Len(calls)]
         IN IF last.fn = "close_connection" THEN 0
            ELSE IF last.ret # 0 /\ last.set_as_default THEN last.ret
            ELSE ExpectedDefault(SubSeq(calls, 1, Len(calls) - 1))

\* C25: get_connection() is the DAO of the most recent successful create
\* call with set_as_default=True, None once close_connection() has been
\* called after it; other create calls leave it unchanged.
C25_DefaultConnection == get_connection = ExpectedDefault(db_calls)

\* C25 witness: a default DAO stays the default after a later create call
\* with set_as_default=False has succeeded, a close_connection having been
\* made before.
C25_Witness ==
    /\ Len(db_calls) >= 3
    /\ db_calls[Len(db_calls)].ret # 0
    /\ ~db_calls[Len(db_calls)].set_as_default
    /\ get_connection # 0
    /\ get_connection # db_calls[Len(db_calls)].ret
    /\ db_calls[1].fn = "close_connection"

RECURSIVE ItemsOfPages(_, _)
\* the items of the first k pages, in page order
ItemsOfPages(chain, k) ==
    IF k = 0 THEN <<>>
    ELSE ItemsOfPages(chain, k - 1) \o (IF chain[k].has_value THEN chain[k].value ELSE <<>>)

\* C26: get_entities gathers the items of the pages it has visited, in page
\* order; it returns the list only after a page without next link, with
\* the items of every page of the chain; and every call returns.
C26_FollowsNextLinks ==
    /\ [](ge_ret = "pending" /\ endpoint # <<>> =>
            entities = ItemsOfPages(pages, endpoint[2] - 1))
    /\ [](ge_ret = "list" =>
            /\ endpoint = <<>>
            /\ entities = ItemsOfPages(pages, Len(pages)))
    /\ <>(ge_ret \in {"list", "None"})

\* C26 witness: a list returned from three pages or more whose links are
\* under base_url, one of them without 'value', another with several items.
C26_Witness ==
    /\ ge_ret = "list"
    /\ Len(pages) >= 3
    /\ pages[1].next_link[1] = base_url
    /\ \E i \in 1..Len(pages) : ~pages[i].has_value
    /\ \E i \in 2..Len(pages) : Len(pages[i].value) >= 2
    /\ Len(entities) >= 3

\* the expiry of a token by the call that obtained it: time of the call +
\* expires_in
ExpiryOf(tok) == tok.at + tok.expires_in

\* C27: when no call is between its two assignments the cached token is
\* held with expiry = time of the call that obtained it + expires_in (300
\* when the reply had none), and a call returns the cached token only when
\* its time is more than 30 seconds before that expiry.
C27_TokenBuffer ==
    /\ (\A t \in Callers : gt_pc[t] # "store_expiry") /\ kc_token # NoToken =>
            kc_token_expiry = ExpiryOf(kc_token)
    /\ \A t \in Callers :
          gt_ret[t].how = "cached" =>
              /\ gt_ret[t].token # NoToken
              /\ gt_ret[t].token.expires_in \in {60, 300}
              /\ gt_ret[t].at < ExpiryOf(gt_ret[t].token) - 30


====
